---- MODULE Spec2Model ----
(***************************************************************************)
(* A model of cvsweb-extract.py: the breadth-first walk of a CVSweb        *)
(* listing tree (fetch_latest_snapshot) together with the remote service   *)
(* it reads from and the local file system it writes to.                   *)
(*                                                                         *)
(* Strings are sequences of one-character strings, so that the string      *)
(* operations of the source (split, join, strip, startswith, re.sub) are   *)
(* computed rather than assumed.                                           *)
(***************************************************************************)
EXTENDS Integers, Sequences, FiniteSets, TLC

\* ------------------------------------------------------------------ bounds

\* The remote tree holds at most this many listing entries in total.
MaxEntries == 2

\* A name given to sanitize_filename_for_illegal_chars on its own has at most
\* this many characters.
MaxNameLen == 3

\* ----------------------------------------------------------------- strings

\* The characters of the strings of the model.
Chars == {"a", "b", "c", "r", "A", "t", "i", "x", ".", "/", "_", "-", "~", "%", " ",
          "h", "e", "k", "o", "u", "2", "3", "5", "0", "E", "F",
          "p", "s", "w", "v", "g", "f", "n", "y", "m", "1", "7", "=", "&",
          "<", ">", ":", "\"", "\\", "|", "?", "*", "\t", "\n"}
Str == Seq(Chars)

SLASH == "/"
DOT == <<".">>
DOTDOT == <<".", ".">>

Range(seq) == {seq[i] : i \in 1..Len(seq)}
Last(s) == s[Len(s)]
Front(s) == SubSeq(s, 1, Len(s) - 1)

StartsWith(s, p) == Len(s) >= Len(p) /\ SubSeq(s, 1, Len(p)) = p
EndsWith(s, p) == Len(s) >= Len(p) /\ SubSeq(s, Len(s) - Len(p) + 1, Len(s)) = p

\* str.split('/') from position x[2] on, x[3] being the segment begun
SplitFrom[x \in Str \X Nat \X Str] ==
    LET s == x[1]
        i == x[2]
        seg == x[3]
    IN IF i > Len(s) THEN <<seg>>
       ELSE IF s[i] = SLASH THEN <<seg>> \o SplitFrom[<<s, i + 1, <<>>>>]
       ELSE SplitFrom[<<s, i + 1, Append(seg, s[i])>>]

\* str.split('/'): the segments between slashes; always at least one segment.
Split(s) == SplitFrom[<<s, 1, <<>>>>]

JoinSegs[segs \in Seq(Str)] ==
    IF segs = <<>> THEN <<>>
    ELSE IF Len(segs) = 1 THEN segs[1]
    ELSE segs[1] \o <<SLASH>> \o JoinSegs[Tail(segs)]

\* '/'.join(segments)
Join(segs) == JoinSegs[segs]

LStripped[s \in Str] == IF s # <<>> /\ s[1] = SLASH THEN LStripped[Tail(s)] ELSE s
RStripped[s \in Str] == IF s # <<>> /\ Last(s) = SLASH THEN RStripped[Front(s)] ELSE s

\* str.lstrip('/'), str.rstrip('/'), str.strip('/')
LStrip(s) == LStripped[s]
RStrip(s) == RStripped[s]
Strip(s) == LStripped[RStripped[s]]

NonEmptySegs[segs \in Seq(Str)] ==
    IF segs = <<>> THEN <<>>
    ELSE IF segs[1] = <<>> THEN NonEmptySegs[Tail(segs)]
    ELSE <<segs[1]>> \o NonEmptySegs[Tail(segs)]

\* filter(None, segments): the non-empty segments, in order
NonEmpty(segs) == NonEmptySegs[segs]

\* ----------------------------------------------------------------- urljoin

\* The loop of urllib.parse.urljoin that resolves '.' and '..' segments: x[1]
\* are the segments still to read and x[2] is resolved_path.
RemoveDots[x \in Seq(Str) \X Seq(Str)] ==
    LET segments == x[1]
        resolved == x[2]
    IN IF segments = <<>> THEN resolved
       ELSE IF segments[1] = DOTDOT
            THEN RemoveDots[<<Tail(segments),
                              IF resolved = <<>> THEN <<>> ELSE Front(resolved)>>]
       ELSE IF segments[1] = DOT THEN RemoveDots[<<Tail(segments), resolved>>]
       ELSE RemoveDots[<<Tail(segments), Append(resolved, segments[1])>>]

\* base_parts: the segments of the base path without a last segment that is
\* not a directory
BaseParts[bp \in Seq(Str)] == IF Last(bp) # <<>> THEN Front(bp) ELSE bp

\* segments[1:-1] = filter(None, segments[1:-1])
FilterMiddle[raw \in Seq(Str)] ==
    IF Len(raw) < 3 THEN raw
    ELSE <<raw[1]>> \o NonEmpty(SubSeq(raw, 2, Len(raw) - 1)) \o <<Last(raw)>>

\* The resolved path of the segments, joined; '/' when it is empty.
ResolvedPath[segments \in Seq(Str)] ==
    LET Closed[resolved \in Seq(Str)] ==
            IF Last(segments) \in {DOT, DOTDOT} THEN Append(resolved, <<>>)
            ELSE resolved
        OrRoot[joined \in Str] == IF joined = <<>> THEN <<SLASH>> ELSE joined
    IN OrRoot[Join(Closed[RemoveDots[<<segments, <<>>>>]])]

\* The path of urljoin(base, url) when neither is empty.
Resolved[x \in Str \X Str] ==
    IF x[2][1] = SLASH THEN ResolvedPath[Split(x[2])]
    ELSE ResolvedPath[FilterMiddle[BaseParts[Split(x[1])] \o Split(x[2])]]

\* The characters a scheme is made of, and those that end a host.
SchemeChars == {"a", "b", "c", "e", "f", "g", "h", "i", "k", "m", "n", "o", "p", "r",
                "s", "t", "u", "v", "w", "x", "y", "A", "E", "F",
                "0", "1", "2", "3", "5", "7", "-", "."}
HostEnd == {"/", "?"}

\* urlsplit: the position of the ':' that ends the scheme of x[1], read from
\* position x[2], or 0 where there is no scheme
ColonAt[x \in Str \X Nat] ==
    IF x[2] > Len(x[1]) THEN 0
    ELSE IF x[1][x[2]] = ":" THEN x[2]
    ELSE IF x[1][x[2]] \in SchemeChars THEN ColonAt[<<x[1], x[2] + 1>>]
    ELSE 0

\* urlsplit: the position after the host that begins at position x[2] of x[1]
NetlocEnd[x \in Str \X Nat] ==
    IF x[2] > Len(x[1]) \/ x[1][x[2]] \in HostEnd THEN x[2]
    ELSE NetlocEnd[<<x[1], x[2] + 1>>]

\* urlparse(base): the scheme and the host of a URL, as a prefix of it. A
\* string with no scheme, such as a repository path, has none.
Origin[base \in Str] ==
    LET Upto[c \in Nat] ==
            IF c < 2 THEN <<>>
            ELSE IF Len(base) >= c + 2 /\ base[c + 1] = SLASH /\ base[c + 2] = SLASH
                 THEN SubSeq(base, 1, NetlocEnd[<<base, c + 3>>] - 1)
            ELSE SubSeq(base, 1, c)
    IN Upto[ColonAt[<<base, 1>>]]

\* urllib.parse.urljoin(base, url), for a url with no scheme, host,
\* parameters, query or fragment: scheme and host are those of the base.
UrlJoin(base, url) ==
    IF base = <<>> THEN url
    ELSE IF url = <<>> THEN base
    ELSE LET Joined[o \in Str] ==
                 o \o Resolved[<<SubSeq(base, Len(o) + 1, Len(base)), url>>]
         IN Joined[Origin[base]]

\* ------------------------------------------------- names of listing entries

\* The character class without the backslash.
IllegalCharsNoBackslash == {"<", ">", ":", "\"", "/", "|", "?", "*", "\t", "\n"}

\* [<>:"/\\|?*\x00-\x1F]: the characters of the class that are in Chars
IllegalChars == {"<", ">", ":", "\"", "/", "\\", "|", "?", "*", "\t", "\n"}

\* re.sub(r'[<>:"/\\|?*\x00-\x1F]', '_', name)
sanitize_filename_for_illegal_chars(name) ==
    LET Sub[s \in Str] == [i \in 1..Len(s) |-> IF s[i] \in IllegalChars THEN "_" ELSE s[i]]
    IN Sub[name]

LowerOf == [c \in {"A", "B", "C", "I", "T"} |->
               CASE c = "A" -> "a" [] c = "B" -> "b" [] c = "C" -> "c"
                 [] c = "I" -> "i" [] c = "T" -> "t"]

\* str.lower()
Lower(s) ==
    LET Low[t \in Str] ==
            [i \in 1..Len(t) |-> IF t[i] \in DOMAIN LowerOf THEN LowerOf[t[i]] ELSE t[i]]
    IN Low[s]

HexPairs == {<<"2", "E">>, <<"2", "F">>, <<"3", "A">>}
HexValue(p) == CASE p = <<"2", "E">> -> "." [] p = <<"2", "F">> -> "/" [] p = <<"3", "A">> -> ":"

Unquoted[s \in Str] ==
    IF s = <<>> THEN <<>>
    ELSE IF s[1] = "%" /\ Len(s) >= 3 /\ SubSeq(s, 2, 3) \in HexPairs
         THEN <<HexValue(SubSeq(s, 2, 3))>> \o Unquoted[SubSeq(s, 4, Len(s))]
    ELSE <<s[1]>> \o Unquoted[Tail(s)]

\* urllib.parse.unquote: each %XX the model knows is replaced by its character
unquote(s) == Unquoted[s]

\* The list of line 241 without the attic.
IgnoredNamesNoAttic ==
    { <<"p","a","r","e","n","t"," ","d","i","r","e","c","t","o","r","y">>,
      <<"[","d","o","n","'","t"," ","h","i","d","e","]">>,
      <<"[","b","a","c","k","]">> }

\* line 241
IgnoredNames ==
    { <<"p","a","r","e","n","t"," ","d","i","r","e","c","t","o","r","y">>,
      <<"[","d","o","n","'","t"," ","h","i","d","e","]">>,
      <<"[","b","a","c","k","]">>,
      <<"a","t","t","i","c">>,
      <<"a","t","t","i","c","/">> }

\* node_name_from_href = href_value[2:]
NodeName(href) == SubSeq(href, 3, Len(href))

\* The local name of an entry: the href after './', without a trailing slash,
\* percent-decoded, then sanitized.
DisplayName(href) ==
    LET Name[node_name_from_href \in Str] ==
            LET temp_local_name == IF EndsWith(node_name_from_href, <<SLASH>>)
                                   THEN Front(node_name_from_href)
                                   ELSE node_name_from_href
            IN sanitize_filename_for_illegal_chars(unquote(temp_local_name))
    IN Name[NodeName(href)]

\* An entry the listing loop passes over without acting on it.
Filtered(href) ==
    LET Ignored[displayed_node_name \in Str] ==
            \/ displayed_node_name = <<>>
            \/ Lower(displayed_node_name) \in IgnoredNames
    IN ~StartsWith(href, <<".", SLASH>>) \/ Ignored[DisplayName(href)]

\* posixpath.join(a, b)
PathJoin(a, b) ==
    LET J[x \in Str \X Str] ==
            IF x[2] # <<>> /\ x[2][1] = SLASH THEN x[2]
            ELSE IF x[1] = <<>> \/ Last(x[1]) = SLASH THEN x[1] \o x[2]
            ELSE x[1] \o <<SLASH>> \o x[2]
    IN J[<<a, b>>]


\* str.replace("\\", "/")
ReplaceBackslash(s) ==
    LET Rep[t \in Str] == [i \in 1..Len(t) |-> IF t[i] = "\\" THEN SLASH ELSE t[i]]
    IN Rep[s]

\* ------------------------------------------------------------ the program's input

\* FULL_URL is https://web.archive.org/web/20171010115113/http://h/c/r/ where
\* h stands for the archived host and the segment c for cvsweb.cgi:
\* cgi_base_url is its part up to cvsweb.cgi and remote_path the rest.
cgi_base_url ==
    <<"h", "t", "t", "p", "s", ":", "/", "/",
      "w", "e", "b", ".", "a", "r", "c", "h", "i", "v", "e", ".", "o", "r", "g",
      "/", "w", "e", "b", "/",
      "2", "0", "1", "7", "1", "0", "1", "0", "1", "1", "5", "1", "1", "3",
      "/", "h", "t", "t", "p", ":", "/", "/", "h", "/", "c">>
remote_path == <<"r", SLASH>>
\* remote_path.replace('/','-').rstrip('-')
local_output_dir == <<"r">>
\* f"{cgi_base_url.rstrip('/')}/{remote_path.lstrip('/')}"
initial_dir_view_url == RStrip(cgi_base_url) \o <<SLASH>> \o LStrip(remote_path)

None == "None"
REV == "1.3"

\* [alt, href, rev] of the entries a listing page may hold: the icon's alt text,
\* the href of the name link, and the bold text of the revision link (or None).
Entry(alt, href, rev) == [alt |-> alt, href |-> href, rev |-> rev]
Entries ==
    { Entry("[DIR]", <<".", SLASH, "a", SLASH>>, None),
      Entry("[DIR]", <<".", SLASH, ".">>, None),
      Entry("[DIR]", <<".", SLASH, ".", ".">>, None),
      Entry("[DIR]", <<".", SLASH, "A", "t", "t", "i", "c", SLASH>>, None),
      Entry("[DIR]", <<".", SLASH, "A", "t", "t", "i", "c", SLASH, ".">>, None),
      Entry("[TXT]", <<".", SLASH>>, REV),
      Entry("[TXT]", <<".", SLASH, "a">>, REV),
      Entry("[TXT]", <<".", SLASH, "a">>, None) }

\* What a listing URL answers: a transport error, an empty body, a page with no
\* <menu>, or a page whose <menu> holds entries.
PageKinds == {"error", "empty", "nomenu", "menu"}
\* What the markup view of a file answers: a transport error, a page with no
\* <pre>, a <pre> with no text, or the file's text.
MarkupOutcomes == {"error", "nopre", "zero", "text"}
\* What the checkout URL of a file answers: a transport error, no bytes, bytes.
CheckoutOutcomes == {"error", "zero", "bytes"}

\* --------------------------------------------------------------------- state

VARIABLES
    run,            \* which invocation of the script this is: the first or the second
    pc,             \* where fetch_latest_snapshot is
    queue,          \* deque of (url, full repo path, local rel path)
    visited_urls,
    file_errors,
    saved_dirs, saved_files, skipped_dirs, skipped_files,
    cur,            \* the node popped from the queue
    idx,            \* position of the listing loop in the page's entries
    ent,            \* the entry being processed
    file_download_url, file_content,
    fs,             \* the local file system: resolved path -> "dir" or a file's content
    listings,       \* the remote service: listing URL -> what it answers
    files,          \* the remote service: (path, rev) -> what each file view answers
    dir_size_positive, \* the platform: os.path.getsize of a directory is not 0
    fetched,        \* history: the listing URLs requested in this run, in order
    attempts,       \* history: the strategies tried for the current entry, in order
    mkdir_failed,   \* history: a directory could not be created in this run
    written, \* history: the resolved paths of the files written in this run, in order
    delays, \* history: for each listing request of this run, whether the delay followed it
    prev,           \* history: the outcome of the previous run
    bfs, \* history: the nodes enqueued and dequeued in this run, in order, with their depths
    processed, \* history: the number of File entries of this run taken up by the listing loop
    call            \* a function of the script applied on its own: [f, parts, arg, out]

prog == <<pc, queue, visited_urls, file_errors, saved_dirs, saved_files,
          skipped_dirs, skipped_files, cur, idx, ent, file_download_url, file_content>>
world == <<fs, listings, files, dir_size_positive>>
hist == <<run, fetched, attempts, mkdir_failed, prev, written, delays>>
vars == <<prog, world, hist, call, bfs, processed>>

\* --------------------------------------------------------- local file system

\* A directory above the working directory: <<"..">>, <<"..", "..">>, ...
AboveCwd(key) == key # <<>> /\ \A i \in 1..Len(key) : key[i] = DOTDOT

\* What the file system f holds at a resolved path.
NodeAt(f, key) ==
    IF key = <<>> \/ AboveCwd(key) THEN "dir"
    ELSE IF key \in DOMAIN f THEN f[key] ELSE "absent"

Parent(key) ==
    IF key = <<>> \/ AboveCwd(key) THEN Append(key, DOTDOT) ELSE Front(key)

\* Path resolution as the kernel does it, from the working directory: every
\* component is looked up in a directory; the last may name anything or nothing.
Resolve(f, path) ==
    LET Walk[x \in Seq(Str) \X Seq(Str)] ==
            LET segs == x[1]
                at == x[2]
            IN IF segs = <<>> THEN [ok |-> TRUE, key |-> at]
               ELSE IF NodeAt(f, at) # "dir" THEN [ok |-> FALSE, key |-> at]
               ELSE IF segs[1] \in {<<>>, DOT} THEN Walk[<<Tail(segs), at>>]
               ELSE IF segs[1] = DOTDOT THEN Walk[<<Tail(segs), Parent(at)>>]
               ELSE Walk[<<Tail(segs), Append(at, segs[1])>>]
    IN Walk[<<Split(path), <<>>>>]

\* os.path.exists(path)
Exists(f, path) ==
    LET Found[r \in [ok : BOOLEAN, key : Seq(Str)]] == r.ok /\ NodeAt(f, r.key) # "absent"
    IN path # <<>> /\ Found[Resolve(f, path)]

\* os.path.getsize(path) > 0, for a path that exists: a file's size is that of
\* its content, a directory's size is what the platform reports for it
SizePositive(f, path) ==
    IF NodeAt(f, Resolve(f, path).key) = "dir" THEN dir_size_positive
    ELSE NodeAt(f, Resolve(f, path).key) # ""

IsDir(f, path) == Exists(f, path) /\ NodeAt(f, Resolve(f, path).key) = "dir"

\* os.makedirs(path) when it succeeds: every missing component becomes a
\* directory.  ok is FALSE where it must raise: a component is not a directory,
\* or the last component exists.  made are the directories to create.
MakeDirs(f, path) ==
    LET Here(made, key) == IF key \in Range(made) THEN "dir" ELSE NodeAt(f, key)
        Walk[x \in Seq(Str) \X Seq(Str) \X Seq(Seq(Str)) \X BOOLEAN] ==
            LET segs == x[1]
                at == x[2]
                made == x[3]
                new == x[4]
            IN IF segs = <<>> THEN [ok |-> new, made |-> made]
               ELSE IF Here(made, at) # "dir" THEN [ok |-> FALSE, made |-> made]
               ELSE IF segs[1] \in {<<>>, DOT} THEN Walk[<<Tail(segs), at, made, new>>]
               ELSE IF segs[1] = DOTDOT
                    THEN Walk[<<Tail(segs), Parent(at), made, FALSE>>]
               ELSE IF Here(made, Append(at, segs[1])) = "absent"
                    THEN Walk[<<Tail(segs), Append(at, segs[1]),
                                Append(made, Append(at, segs[1])), TRUE>>]
               ELSE Walk[<<Tail(segs), Append(at, segs[1]), made, FALSE>>]
        r == Walk[<<Split(path), <<>>, <<>>, FALSE>>]
    IN [ok |-> r.ok,
        fs |-> [k \in DOMAIN f \cup Range(r.made) |->
                   IF k \in Range(r.made) THEN "dir" ELSE f[k]]]

\* open(path, 'wb') can succeed: the path resolves to a regular file or to
\* nothing inside a directory.
CanOpen(f, path) ==
    /\ Resolve(f, path).ok
    /\ NodeAt(f, Resolve(f, path).key) # "dir"
    /\ NodeAt(f, Parent(Resolve(f, path).key)) = "dir"

\* A write that leaves the file empty whatever the content.
WriteFileEmpty(f, path, content) == Resolve(f, path).key :> "" @@ f

\* The file system with the given content at path.
WriteFile(f, path, content) == Resolve(f, path).key :> content @@ f

\* The trees the script may find when it is first started: nothing, its output
\* directory, or its output directory with a file a that is empty or not.
PreTrees ==
    { <<>>,
      <<local_output_dir>> :> "dir",
      <<local_output_dir>> :> "dir" @@ <<local_output_dir, <<"a">>>> :> "old",
      <<local_output_dir>> :> "dir" @@ <<local_output_dir, <<"a">>>> :> "" }

NoNode == [url |-> <<>>, repo |-> <<>>, local |-> <<>>]
NoEntry == Entry("", <<>>, None)
\* file_download_url = None, as a URL with nothing in it
NoUrl == [view |-> "", url |-> <<>>, rev |-> None]
NoPrev == [saved_files |-> 0, skipped_files |-> 0, file_errors |-> <<>>,
           mkdir_failed |-> FALSE, fs |-> <<>>]

\* No function applied on its own.
NoParts == [scheme |-> <<>>, host |-> <<>>, stamp |-> <<>>, marker |-> <<>>, rest |-> <<>>]
NoCall == [f |-> "", parts |-> NoParts, arg |-> <<>>, out |-> <<>>]

\* The variables of a run before anything is done, lines 166-174.
Fresh ==
    /\ run = 1
    /\ queue = <<>>
    /\ visited_urls = {}
    /\ file_errors = <<>>
    /\ saved_dirs = 0 /\ saved_files = 0 /\ skipped_dirs = 0 /\ skipped_files = 0
    /\ cur = NoNode
    /\ idx = 0
    /\ ent = NoEntry
    /\ file_download_url = NoUrl /\ file_content = None
    /\ listings = <<>>
    /\ files = <<>>
    /\ fetched = <<>>
    /\ attempts = <<>>
    /\ mkdir_failed = FALSE
    /\ written = <<>>
    /\ delays = <<>>
    /\ prev = NoPrev
    /\ processed = 0
    /\ bfs = [enq |-> <<>>, deq |-> <<>>, qd |-> <<>>, d |-> 0]

Init ==
    /\ Fresh
    /\ pc = "start"
    /\ fs \in PreTrees
    /\ dir_size_positive \in BOOLEAN
    /\ call = NoCall


\* ------------------------------------------------------------ file fetching

UnsafeChars == {" ", ":", "%"}
QuoteOf(c) == CASE c = " " -> <<"%", "2", "0">>
                [] c = ":" -> <<"%", "3", "A">>
                [] c = "%" -> <<"%", "2", "5">>

Quoted[part \in Str] ==
    IF part = <<>> THEN <<>>
    ELSE (IF part[1] \in UnsafeChars THEN QuoteOf(part[1]) ELSE <<part[1]>>)
         \o Quoted[Tail(part)]

\* urllib.parse.quote(part)
quote(part) == Quoted[part]

\* "/".join([quote(part) for part in path_for_download_url.split('/')])
QuotePath(path) ==
    LET Parts[parts \in Seq(Str)] == Join([i \in 1..Len(parts) |-> quote(parts[i])])
    IN Parts[Split(path)]

CHECKOUT_PREFIX == <<"~", "c", "h", "e", "c", "k", "o", "u", "t", "~">>

\* The text of a revision, as it is put into a URL.
RevText(latest_revision) == IF latest_revision = REV THEN <<"1", ".", "3">> ELSE <<>>

REV_QUERY == <<"?", "r", "e", "v", "=">>
MARKUP_QUERY ==
    <<"&", "c", "o", "n", "t", "e", "n", "t", "-", "t", "y", "p", "e", "=",
      "t", "e", "x", "t", "/", "x", "-", "c", "v", "s", "w", "e", "b", "-",
      "m", "a", "r", "k", "u", "p">>

\* ------------------------------------------------- the archive's raw content

Digits == {"0", "1", "2", "3", "5", "7"}

\* Up to n characters of s from position a on.
At(s, a, n) == SubSeq(s, a, IF a + n - 1 > Len(s) THEN Len(s) ELSE a + n - 1)

\* WAYBACK_URL_PATTERN.match(url): whether
\* ^(https?://web\.archive\.org/web/(\d{14}))(if_)?(/.*)$ matches, and its
\* groups 1, 3 and 4. '.' matches no line break and '$' matches at the end
\* of the string or before a line break that ends it.
WaybackMatch[url \in Str] ==
    LET s == IF At(url, 5, 1) = <<"s">> THEN 5 ELSE 4
        lit == <<":", "/", "/", "w", "e", "b", ".", "a", "r", "c", "h", "i", "v", "e",
                 ".", "o", "r", "g", "/", "w", "e", "b", "/">>
        d == s + Len(lit)
        m == IF At(url, d + 15, 3) = <<"i", "f", "_">> THEN 3 ELSE 0
        r == d + 15 + m
        rest == At(url, r, Len(url))
        line == IF rest # <<>> /\ Last(rest) = "\n" THEN Front(rest) ELSE rest
    IN [matched |-> /\ At(url, 1, 4) = <<"h", "t", "t", "p">>
                    /\ At(url, s + 1, Len(lit)) = lit
                    /\ Len(url) >= d + 14
                    /\ \A i \in (d + 1)..(d + 14) : url[i] \in Digits
                    /\ At(url, r, 1) = <<SLASH>>
                    /\ "\n" \notin Range(line),
        group1 |-> At(url, 1, d + 14),
        group3 |-> At(url, d + 15, m),
        group4 |-> line]

\* The marker is put in whether or not it is there already.
get_wayback_raw_content_url_again(original_wayback_url) ==
    LET Raw[match \in [matched : BOOLEAN, group1 : Str, group3 : Str, group4 : Str]] ==
            IF match.matched
            THEN match.group1 \o <<"i", "f", "_">> \o match.group3 \o match.group4
            ELSE original_wayback_url
    IN Raw[WaybackMatch[original_wayback_url]]

\* An archive URL that does not yet ask for the raw content gets the marker
\* if_ after its timestamp; any other string is returned as it is.
get_wayback_raw_content_url(original_wayback_url) ==
    LET Raw[match \in [matched : BOOLEAN, group1 : Str, group3 : Str, group4 : Str]] ==
            IF match.matched
            THEN IF match.group3 # <<>> THEN original_wayback_url
                 ELSE match.group1 \o <<"i", "f", "_">> \o match.group4
            ELSE original_wayback_url
    IN Raw[WaybackMatch[original_wayback_url]]

\* The URL fetch_file_content_markup requests.
markup_view_url(latest_revision, path_for_download_url) ==
    [view |-> "markup",
     url |-> RStrip(cgi_base_url) \o <<SLASH>> \o QuotePath(path_for_download_url)
             \o REV_QUERY \o RevText(latest_revision) \o MARKUP_QUERY,
     rev |-> latest_revision]

\* The URL fetch_file_content_checkout requests.
checkout_url(latest_revision, path_for_download_url) ==
    [view |-> "checkout",
     url |-> get_wayback_raw_content_url(
                 RStrip(cgi_base_url) \o <<SLASH>> \o Strip(CHECKOUT_PREFIX) \o <<SLASH>>
                 \o QuotePath(path_for_download_url)
                 \o REV_QUERY \o RevText(latest_revision)),
     rev |-> latest_revision]

\* The list of line 275 in the other order.
StrategiesCheckoutFirst == <<"checkout", "markup">>

\* for fetch_file_content in [fetch_file_content_markup, fetch_file_content_checkout]
Strategies == <<"markup", "checkout">>

StrategyUrl(s, rev, path) ==
    IF s = "markup" THEN markup_view_url(rev, path) ELSE checkout_url(rev, path)

StrategyOutcomes(s) == IF s = "markup" THEN MarkupOutcomes ELSE CheckoutOutcomes

\* What a strategy returns as content for what the service answered: the text
\* of the <pre> encoded as bytes, the response's bytes, or None.
ContentOf(s, outcome) ==
    CASE outcome \in {"error", "nopre"} -> None
      [] outcome = "zero" -> ""
      [] outcome = "text" -> "markup_text"
      [] outcome = "bytes" -> "checkout_bytes"

\* Only None is taken as no content: empty bytes are content.
TruthyUnlessNone(content) == content # None

\* Python's truth of a bytes-or-None value: `if file_content`
Truthy(content) == content \notin {None, ""}

\* ----------------------------------------------------------------- the walk

RootNode == [url |-> initial_dir_view_url, repo |-> remote_path, local |-> <<>>]

\* lines 170-174
Begin ==
    /\ queue' = <<RootNode>>
    /\ bfs' = [enq |-> <<[node |-> RootNode, depth |-> 0, parent |-> 0]>>,
               deq |-> <<>>, qd |-> <<0>>, d |-> 0]
    /\ visited_urls' = {}
    /\ file_errors' = <<>>
    /\ saved_dirs' = 0 /\ saved_files' = 0 /\ skipped_dirs' = 0 /\ skipped_files' = 0
    /\ pc' = "loop"
    /\ UNCHANGED <<cur, idx, ent, file_download_url, file_content>>

\* lines 157, 165-174: the output directory is there
StartExists ==
    /\ pc = "start"
    /\ Exists(fs, local_output_dir)
    /\ Begin
    /\ UNCHANGED <<world, hist, call, processed>>

\* lines 157-160: the output directory is created
StartMakeDirs ==
    /\ pc = "start"
    /\ ~Exists(fs, local_output_dir)
    /\ MakeDirs(fs, local_output_dir).ok
    /\ fs' = MakeDirs(fs, local_output_dir).fs
    /\ Begin
    /\ UNCHANGED <<listings, files, hist, dir_size_positive, call, processed>>

\* lines 161-163: os.makedirs raises OSError and the script exits
StartAbort ==
    /\ pc = "start"
    /\ ~Exists(fs, local_output_dir)
    /\ pc' = "aborted"
    /\ UNCHANGED <<queue, visited_urls, file_errors, saved_dirs, saved_files,
                   skipped_dirs, skipped_files, cur, idx, ent, file_download_url,
                   file_content, world, hist, call, bfs, processed>>

\* The test of line 179 left out: every node popped is taken as new.
AlreadyVisitedNever(url) == FALSE

\* line 179: the test that discards a node popped from the queue
AlreadyVisited(url) == url \in visited_urls

\* lines 176-181: a node whose URL was visited is dropped
DequeueVisited ==
    /\ pc = "loop"
    /\ queue # <<>>
    /\ AlreadyVisited(Head(queue).url)
    /\ cur' = Head(queue)
    /\ queue' = Tail(queue)
    /\ bfs' = [bfs EXCEPT !.deq = Append(@, [node |-> Head(queue), depth |-> Head(bfs.qd)]),
                          !.qd = Tail(@),
                          !.d = Head(bfs.qd)]
    /\ UNCHANGED <<pc, visited_urls, file_errors, saved_dirs, saved_files, skipped_dirs,
                   skipped_files, idx, ent, file_download_url, file_content, world, hist,
                   call, processed>>

\* lines 176-182: a node whose URL is new is marked visited
DequeueNew ==
    /\ pc = "loop"
    /\ queue # <<>>
    /\ ~AlreadyVisited(Head(queue).url)
    /\ cur' = Head(queue)
    /\ queue' = Tail(queue)
    /\ bfs' = [bfs EXCEPT !.deq = Append(@, [node |-> Head(queue), depth |-> Head(bfs.qd)]),
                          !.qd = Tail(@),
                          !.d = Head(bfs.qd)]
    /\ visited_urls' = visited_urls \cup {Head(queue).url}
    /\ pc' = "fetch_page"
    /\ UNCHANGED <<file_errors, saved_dirs, saved_files, skipped_dirs, skipped_files,
                   idx, ent, file_download_url, file_content, world, hist, call,
                   processed>>

\* lines 176, 299: the queue is empty and the statistics are returned
Finish ==
    /\ pc = "loop"
    /\ queue = <<>>
    /\ pc' = "done"
    /\ UNCHANGED <<queue, visited_urls, file_errors, saved_dirs, saved_files,
                   skipped_dirs, skipped_files, cur, idx, ent, file_download_url,
                   file_content, world, hist, call, bfs, processed>>

\* The delay of lines 55, 90 and 107 comes after any answer, failed or not.
SleepsAlways(outcome) == TRUE

\* lines 53-55, 88-90, 105-107: time.sleep(REQUEST_DELAY_SECONDS) comes after
\* raise_for_status() in the try block, so it runs unless the request failed
Sleeps(outcome) == outcome # "error"

\* The service answers a listing URL with kind k: as it answered before, or,
\* the first time, with any kind.
Answers(url, k) ==
    IF url \in DOMAIN listings
    THEN k = listings[url].kind /\ listings' = listings
    ELSE listings' = url :> [kind |-> k, entries |-> <<>>, closed |-> FALSE] @@ listings

\* fetch_page_content, lines 50-59 and 188-190: no page, the directory is skipped
FetchPageFailed ==
    /\ pc = "fetch_page"
    /\ \E k \in {"error", "empty"} :
         /\ Answers(cur.url, k)
         /\ delays' = Append(delays, Sleeps(k))
    /\ fetched' = Append(fetched, cur.url)
    /\ pc' = "loop"
    /\ UNCHANGED <<queue, visited_urls, file_errors, saved_dirs, saved_files,
                   skipped_dirs, skipped_files, cur, idx, ent, file_download_url,
                   file_content, fs, files, run, attempts, mkdir_failed, prev,
                   dir_size_positive, written, call, bfs, processed>>

\* fetch_page_content, lines 50-56 and 188: the page is there
FetchPageOk ==
    /\ pc = "fetch_page"
    /\ \E k \in {"nomenu", "menu"} :
         /\ Answers(cur.url, k)
         /\ delays' = Append(delays, Sleeps(k))
    /\ fetched' = Append(fetched, cur.url)
    /\ pc' = "mkdir"
    /\ UNCHANGED <<queue, visited_urls, file_errors, saved_dirs, saved_files,
                   skipped_dirs, skipped_files, cur, idx, ent, file_download_url,
                   file_content, fs, files, run, attempts, mkdir_failed, prev,
                   dir_size_positive, written, call, bfs, processed>>

\* line 192
current_local_full_path == PathJoin(local_output_dir, cur.local)

\* line 193: the test that the local directory is there
DirPresent(path) == Exists(fs, path)

\* lines 193, 201-202
DirExists ==
    /\ pc = "mkdir"
    /\ DirPresent(current_local_full_path)
    /\ skipped_dirs' = skipped_dirs + 1
    /\ pc' = "parse"
    /\ UNCHANGED <<queue, visited_urls, file_errors, saved_dirs, saved_files,
                   skipped_files, cur, idx, ent, file_download_url, file_content,
                   world, hist, call, bfs, processed>>

\* lines 193-197
DirCreate ==
    /\ pc = "mkdir"
    /\ ~DirPresent(current_local_full_path)
    /\ MakeDirs(fs, current_local_full_path).ok
    /\ fs' = MakeDirs(fs, current_local_full_path).fs
    /\ saved_dirs' = saved_dirs + 1
    /\ pc' = "parse"
    /\ UNCHANGED <<queue, visited_urls, file_errors, saved_files, skipped_dirs,
                   skipped_files, cur, idx, ent, file_download_url, file_content,
                   listings, files, hist, dir_size_positive, call, bfs, processed>>

\* The handler of lines 198-200 ending the script as that of lines 161-163 does.
DirCreateFailedExits ==
    /\ pc = "mkdir"
    /\ ~DirPresent(current_local_full_path)
    /\ mkdir_failed' = TRUE
    /\ pc' = "aborted"
    /\ UNCHANGED <<queue, visited_urls, file_errors, saved_dirs, saved_files,
                   skipped_dirs, skipped_files, cur, idx, ent, file_download_url,
                   file_content, world, run, fetched, attempts, prev, written, delays,
                   call, bfs, processed>>

\* lines 198-200: os.makedirs raises OSError
DirCreateFailed ==
    /\ pc = "mkdir"
    /\ ~DirPresent(current_local_full_path)
    /\ mkdir_failed' = TRUE
    /\ pc' = "loop"
    /\ UNCHANGED <<queue, visited_urls, file_errors, saved_dirs, saved_files,
                   skipped_dirs, skipped_files, cur, idx, ent, file_download_url,
                   file_content, world, run, fetched, attempts, prev, written, delays,
                   call, bfs, processed>>

\* lines 204-208: no <menu> in the page
ParseNoMenu ==
    /\ pc = "parse"
    /\ listings[cur.url].kind = "nomenu"
    /\ pc' = "loop"
    /\ UNCHANGED <<queue, visited_urls, file_errors, saved_dirs, saved_files,
                   skipped_dirs, skipped_files, cur, idx, ent, file_download_url,
                   file_content, world, hist, call, bfs, processed>>

\* lines 204-211: the listing loop starts
ParseMenu ==
    /\ pc = "parse"
    /\ listings[cur.url].kind = "menu"
    /\ idx' = 1
    /\ pc' = "entry"
    /\ UNCHANGED <<queue, visited_urls, file_errors, saved_dirs, saved_files,
                   skipped_dirs, skipped_files, cur, ent, file_download_url,
                   file_content, world, hist, call, bfs, processed>>


\* ---------------------------------------------------------- the listing loop

\* The entries the remote tree is known to hold.
TotalEntries ==
    Cardinality({p \in (DOMAIN listings) \X (1..MaxEntries) :
                    p[2] <= Len(listings[p[1]].entries)})

\* The page's entry at idx is e: as read before, or, the first time the page is
\* read that far, any entry.
NextEntryIs(e) ==
    LET page == listings[cur.url]
    IN IF idx <= Len(page.entries)
       THEN e = page.entries[idx] /\ listings' = listings
       ELSE /\ ~page.closed
            /\ TotalEntries < MaxEntries
            /\ listings' = [listings EXCEPT ![cur.url].entries = Append(@, e)]

\* line 246
next_item_view_url(e) == UrlJoin(cur.url, NodeName(e.href))
\* line 247
next_item_full_repo_path(e) == UrlJoin(cur.repo, NodeName(e.href))
\* line 260
local_file_path(e) == PathJoin(current_local_full_path, DisplayName(e.href))
\* line 273
path_for_download_url(e) == Strip(next_item_full_repo_path(e))

\* The test of line 261 left out: no file is taken as already there.
SkipTestNever(f, path) == FALSE

\* line 261: the test that skips a file
SkipTest(f, path) == Exists(f, path) /\ SizePositive(f, path)

\* The test of line 261 passing only for an entry with a revision.
SkipsWithRevision(e) == SkipTest(fs, local_file_path(e)) /\ e.rev # None

\* line 261, for an entry of the current page
Skips(e) == SkipTest(fs, local_file_path(e))

\* The pair of line 294 with the kind of line 291.
RevisionErrorAsDownload(name) == <<"download error", name>>

\* line 294
RevisionError(name) == <<"latest revision error", name>>
\* line 291
DownloadError(url) == <<"download error", url>>
\* line 288
SaveError(url) == <<"save error", url>>

\* lines 251-255: the node a directory entry adds to the queue
ChildNode(e) ==
    LET WithSlash[path \in Str] ==
            IF EndsWith(path, <<SLASH>>) THEN path ELSE Append(path, SLASH)
    IN [url |-> next_item_view_url(e),
        repo |-> WithSlash[next_item_full_repo_path(e)],
        local |-> ReplaceBackslash(PathJoin(cur.local, DisplayName(e.href)))]

\* line 211, 296-298: the page has no more entries
EndOfPage ==
    /\ pc = "entry"
    /\ idx > Len(listings[cur.url].entries)
    /\ listings' = [listings EXCEPT ![cur.url].closed = TRUE]
    /\ pc' = "loop"
    /\ UNCHANGED <<queue, visited_urls, file_errors, saved_dirs, saved_files,
                   skipped_dirs, skipped_files, cur, idx, ent, file_download_url,
                   file_content, fs, files, hist, dir_size_positive, call, bfs,
                   processed>>

\* lines 227-242: a candidate that is no entry of the tree
SkipCandidate ==
    /\ pc = "entry"
    /\ \E e \in Entries :
         /\ NextEntryIs(e)
         /\ Filtered(e.href)
         /\ ent' = e
    /\ idx' = idx + 1
    /\ UNCHANGED <<pc, queue, visited_urls, file_errors, saved_dirs, saved_files,
                   skipped_dirs, skipped_files, cur, file_download_url, file_content,
                   fs, files, hist, dir_size_positive, call, bfs, processed>>

\* The node is put at the head of the queue: the next node popped.
EnqueueDirFront ==
    /\ pc = "entry"
    /\ \E e \in Entries :
         /\ NextEntryIs(e)
         /\ ~Filtered(e.href)
         /\ e.alt = "[DIR]"
         /\ ent' = e
         /\ queue' = <<ChildNode(e)>> \o queue
         /\ bfs' = [bfs EXCEPT !.enq = Append(@, [node |-> ChildNode(e),
                                                  depth |-> bfs.d + 1,
                                                  parent |-> Len(bfs.deq)]),
                               !.qd = <<bfs.d + 1>> \o @]
    /\ idx' = idx + 1
    /\ UNCHANGED <<pc, visited_urls, file_errors, saved_dirs, saved_files,
                   skipped_dirs, skipped_files, cur, file_download_url, file_content,
                   fs, files, hist, dir_size_positive, call, processed>>

\* lines 249-256: a directory entry is added to the queue
EnqueueDir ==
    /\ pc = "entry"
    /\ \E e \in Entries :
         /\ NextEntryIs(e)
         /\ ~Filtered(e.href)
         /\ e.alt = "[DIR]"
         /\ ent' = e
         /\ queue' = Append(queue, ChildNode(e))
         /\ bfs' = [bfs EXCEPT !.enq = Append(@, [node |-> ChildNode(e),
                                                  depth |-> bfs.d + 1,
                                                  parent |-> Len(bfs.deq)]),
                               !.qd = Append(@, bfs.d + 1)]
    /\ idx' = idx + 1
    /\ UNCHANGED <<pc, visited_urls, file_errors, saved_dirs, saved_files,
                   skipped_dirs, skipped_files, cur, file_download_url, file_content,
                   fs, files, hist, dir_size_positive, call, processed>>

\* lines 258-264: the file is there and not empty
SkipFile ==
    /\ pc = "entry"
    /\ \E e \in Entries :
         /\ NextEntryIs(e)
         /\ ~Filtered(e.href)
         /\ e.alt = "[TXT]"
         /\ Skips(e)
         /\ ent' = e
    /\ skipped_files' = skipped_files + 1
    /\ idx' = idx + 1
    /\ processed' = processed + 1
    /\ UNCHANGED <<pc, queue, visited_urls, file_errors, saved_dirs, saved_files,
                   skipped_dirs, cur, file_download_url, file_content, fs, files, hist,
                   dir_size_positive, call, bfs>>

\* lines 266-272, 292-294: no revision on the listing page
NoRevision ==
    /\ pc = "entry"
    /\ \E e \in Entries :
         /\ NextEntryIs(e)
         /\ ~Filtered(e.href)
         /\ e.alt = "[TXT]"
         /\ ~Skips(e)
         /\ e.rev = None
         /\ ent' = e
         /\ file_errors' = Append(file_errors, RevisionError(DisplayName(e.href)))
    /\ idx' = idx + 1
    /\ processed' = processed + 1
    /\ UNCHANGED <<pc, queue, visited_urls, saved_dirs, saved_files, skipped_dirs,
                   skipped_files, cur, file_download_url, file_content, fs, files, hist,
                   dir_size_positive, call, bfs>>

\* lines 266-274: a file to fetch
BeginFetch ==
    /\ pc = "entry"
    /\ \E e \in Entries :
         /\ NextEntryIs(e)
         /\ ~Filtered(e.href)
         /\ e.alt = "[TXT]"
         /\ ~Skips(e)
         /\ e.rev # None
         /\ ent' = e
    /\ file_download_url' = NoUrl
    /\ file_content' = None
    /\ attempts' = <<>>
    /\ pc' = "fetch"
    /\ processed' = processed + 1
    /\ UNCHANGED <<queue, visited_urls, file_errors, saved_dirs, saved_files,
                   skipped_dirs, skipped_files, cur, idx, fs, files, run, fetched,
                   mkdir_failed, prev, dir_size_positive, written, delays, call, bfs>>

\* line 275: the strategy the loop tries after n of them returned nothing
StrategyAt(n) == Strategies[n + 1]

\* The service answers strategy s for the current file with outcome o: as it
\* answered before, or, the first time, with any outcome.
FileAnswers(s, o) ==
    LET key == <<s, path_for_download_url(ent), ent.rev>>
    IN /\ o \in StrategyOutcomes(s)
       /\ IF key \in DOMAIN files
          THEN o = files[key] /\ files' = files
          ELSE files' = key :> o @@ files

\* lines 276-278, and the body of the strategy: a request, and what it returns
Request(s, o) ==
    /\ FileAnswers(s, o)
    /\ file_download_url' = StrategyUrl(s, ent.rev, path_for_download_url(ent))
    /\ file_content' = ContentOf(s, o)
    /\ attempts' = Append(attempts,
                           [strategy |-> s, outcome |-> o, content |-> ContentOf(s, o),
                            slept |-> Sleeps(o)])

\* lines 275-278: a strategy returns content, and the loop ends
FetchContent ==
    /\ pc = "fetch"
    /\ \E o \in MarkupOutcomes \cup CheckoutOutcomes :
         /\ Request(StrategyAt(Len(attempts)), o)
         /\ Truthy(ContentOf(StrategyAt(Len(attempts)), o))
    /\ pc' = "save"
    /\ UNCHANGED <<queue, visited_urls, file_errors, saved_dirs, saved_files,
                   skipped_dirs, skipped_files, cur, idx, ent, fs, listings, run,
                   fetched, mkdir_failed, prev, dir_size_positive, written, delays,
                   call, bfs, processed>>

\* lines 275-278: a strategy returns nothing, and the next one is tried
FetchNothing ==
    /\ pc = "fetch"
    /\ Len(attempts) + 1 < Len(Strategies)
    /\ \E o \in MarkupOutcomes \cup CheckoutOutcomes :
         /\ Request(StrategyAt(Len(attempts)), o)
         /\ ~Truthy(ContentOf(StrategyAt(Len(attempts)), o))
    /\ UNCHANGED <<pc, queue, visited_urls, file_errors, saved_dirs, saved_files,
                   skipped_dirs, skipped_files, cur, idx, ent, fs, listings, run,
                   fetched, mkdir_failed, prev, dir_size_positive, written, delays,
                   call, bfs, processed>>

\* lines 275-280, 289-291: the last strategy returns nothing
FetchFailed ==
    /\ pc = "fetch"
    /\ Len(attempts) + 1 = Len(Strategies)
    /\ \E o \in MarkupOutcomes \cup CheckoutOutcomes :
         /\ Request(StrategyAt(Len(attempts)), o)
         /\ ~Truthy(ContentOf(StrategyAt(Len(attempts)), o))
    /\ file_errors' = Append(file_errors, DownloadError(file_download_url'))
    /\ idx' = idx + 1
    /\ pc' = "entry"
    /\ UNCHANGED <<queue, visited_urls, saved_dirs, saved_files, skipped_dirs,
                   skipped_files, cur, ent, fs, listings, run, fetched, mkdir_failed,
                   prev, dir_size_positive, written, delays, call, bfs, processed>>

\* lines 280-285: the content is written
SaveOk ==
    /\ pc = "save"
    /\ CanOpen(fs, local_file_path(ent))
    /\ fs' = WriteFile(fs, local_file_path(ent), file_content)
    /\ saved_files' = saved_files + 1
    /\ written' = Append(written, Resolve(fs, local_file_path(ent)).key)
    /\ idx' = idx + 1
    /\ pc' = "entry"
    /\ UNCHANGED <<queue, visited_urls, file_errors, saved_dirs, skipped_dirs,
                   skipped_files, cur, ent, file_download_url, file_content,
                   listings, files, dir_size_positive, run, fetched, attempts,
                   mkdir_failed, prev, delays, call, bfs, processed>>

\* What a failed write may leave: the tree as it was, or, where the file could
\* be opened, the file empty or holding a part of the content.
AfterFailedSave(f, path) ==
    {f} \cup IF CanOpen(f, path)
             THEN {WriteFile(f, path, ""), WriteFile(f, path, "part")}
             ELSE {}

\* The handler of lines 286-288 without its append to file_errors.
SaveFailedSilent ==
    /\ pc = "save"
    /\ fs' \in AfterFailedSave(fs, local_file_path(ent))
    /\ idx' = idx + 1
    /\ pc' = "entry"
    /\ UNCHANGED <<queue, visited_urls, file_errors, saved_dirs, saved_files,
                   skipped_dirs, skipped_files, cur, ent, file_download_url,
                   file_content, listings, files, hist, dir_size_positive, call, bfs,
                   processed>>

\* lines 281-283, 286-288: open or write raises OSError
SaveFailed ==
    /\ pc = "save"
    /\ fs' \in AfterFailedSave(fs, local_file_path(ent))
    /\ file_errors' = Append(file_errors, SaveError(file_download_url))
    /\ idx' = idx + 1
    /\ pc' = "entry"
    /\ UNCHANGED <<queue, visited_urls, saved_dirs, saved_files, skipped_dirs,
                   skipped_files, cur, ent, file_download_url, file_content,
                   listings, files, hist, dir_size_positive, call, bfs, processed>>

\* lines 302-304: the script is started again in the same working directory
Rerun ==
    /\ pc = "done"
    /\ run = 1
    /\ run' = run + 1
    /\ prev' = [saved_files |-> saved_files, skipped_files |-> skipped_files,
                file_errors |-> file_errors, mkdir_failed |-> mkdir_failed, fs |-> fs]
    /\ pc' = "start"
    /\ queue' = <<>>
    /\ visited_urls' = {}
    /\ file_errors' = <<>>
    /\ saved_dirs' = 0 /\ saved_files' = 0 /\ skipped_dirs' = 0 /\ skipped_files' = 0
    /\ cur' = NoNode
    /\ idx' = 0
    /\ ent' = NoEntry
    /\ file_download_url' = NoUrl /\ file_content' = None
    /\ fetched' = <<>>
    /\ attempts' = <<>>
    /\ mkdir_failed' = FALSE
    /\ written' = <<>>
    /\ delays' = <<>>
    /\ processed' = 0
    /\ bfs' = [enq |-> <<>>, deq |-> <<>>, qd |-> <<>>, d |-> 0]
    /\ UNCHANGED <<world, call>>

\* One step of a run.
Step ==
    \/ StartExists \/ StartMakeDirs \/ StartAbort
    \/ DequeueVisited \/ DequeueNew \/ Finish
    \/ FetchPageFailed \/ FetchPageOk
    \/ DirExists \/ DirCreate \/ DirCreateFailed
    \/ ParseNoMenu \/ ParseMenu
    \/ EndOfPage \/ SkipCandidate \/ EnqueueDir \/ SkipFile \/ NoRevision \/ BeginFetch
    \/ FetchContent \/ FetchNothing \/ FetchFailed
    \/ SaveOk \/ SaveFailed

Next == Step \/ Rerun

Spec == Init /\ [][Next]_vars

\* The interpreter runs the script to its end: a step that can be taken is taken.
FairSpec == Spec /\ WF_vars(Step)

\* ------------------------------------------- functions applied on their own

\* Strings given to get_wayback_raw_content_url, by their parts: a scheme, a
\* host, a timestamp, the marker or none, and the rest. Beside the parts of
\* WAYBACK_URL_PATTERN there are a scheme and a host it does not name, and
\* timestamps that are not fourteen digits.
Schemes == {<<"h", "t", "t", "p">>, <<"h", "t", "t", "p", "s">>, <<"f", "t", "p">>}
ArchiveHost ==
    <<"w", "e", "b", ".", "a", "r", "c", "h", "i", "v", "e", ".", "o", "r", "g">>
OtherHost ==
    <<"w", "e", "b", "-", "a", "r", "c", "h", "i", "v", "e", ".", "o", "r", "g">>
Stamp == <<"2", "0", "1", "7", "1", "0", "1", "0", "1", "1", "5", "1", "1", "3">>
Stamps == {Stamp, Front(Stamp), Append(Stamp, "0"), Append(Front(Stamp), "x")}
Markers == {<<>>, <<"i", "f", "_">>}
Rests == {<<>>, <<SLASH>>,
          <<SLASH>> \o SubSeq(cgi_base_url, 44, Len(cgi_base_url))
              \o <<SLASH, "a">> \o REV_QUERY \o RevText(REV)}
WaybackParts ==
    [scheme : Schemes, host : {ArchiveHost, OtherHost}, stamp : Stamps,
     marker : Markers, rest : Rests]

\* The string of the parts.
UrlOf(p) ==
    p.scheme \o <<":", SLASH, SLASH>> \o p.host \o <<SLASH, "w", "e", "b", SLASH>>
    \o p.stamp \o p.marker \o p.rest

\* Names given to sanitize_filename_for_illegal_chars: letters, a space (the
\* character after the control characters), the underscore, and illegal
\* characters of each kind.
NameChars == {"a", " ", "_", "<", "\\", "*", "\n"}
Names == UNION {[1..n -> NameChars] : n \in 0..MaxNameLen}

\* The script is not run (pc is at none of its positions): one of its
\* functions is applied to a string.
PureInit ==
    /\ Fresh
    /\ pc = "apply"
    /\ fs = <<>>
    /\ dir_size_positive = FALSE
    /\ \/ \E p \in WaybackParts :
             call = [f |-> "get_wayback_raw_content_url", parts |-> p,
                     arg |-> UrlOf(p), out |-> <<>>]
       \/ \E name \in Names :
             call = [f |-> "sanitize_filename_for_illegal_chars", parts |-> NoParts,
                     arg |-> name, out |-> <<>>]

\* get_wayback_raw_content_url applied to the string, and then to its result
ApplyWayback ==
    /\ call.f = "get_wayback_raw_content_url"
    /\ Len(call.out) < 2
    /\ call' = [call EXCEPT !.out =
                   Append(@, get_wayback_raw_content_url(
                                 IF @ = <<>> THEN call.arg ELSE Last(@)))]
    /\ UNCHANGED <<prog, world, hist, bfs, processed>>

\* sanitize_filename_for_illegal_chars applied to the name
ApplySanitize ==
    /\ call.f = "sanitize_filename_for_illegal_chars"
    /\ call.out = <<>>
    /\ call' = [call EXCEPT !.out = <<sanitize_filename_for_illegal_chars(call.arg)>>]
    /\ UNCHANGED <<prog, world, hist, bfs, processed>>

PureNext == ApplyWayback \/ ApplySanitize

PureSpec == PureInit /\ [][PureNext]_vars

\* The run of the script together with the functions on their own.
WalkAndPureSpec == (Init \/ PureInit) /\ [][Next \/ PureNext]_vars


\* -------------------------------------------------------------------- claims

\* C1: in one run no listing URL is requested twice: the URLs requested so far
\* are pairwise different, and the URL about to be requested was not requested
\* before; a node popped with a visited URL is dropped with no request.
C1_ListingFetchedOnce ==
    /\ \A i, j \in 1..Len(fetched) : fetched[i] = fetched[j] => i = j
    /\ pc = "fetch_page" => cur.url \notin Range(fetched)
    /\ pc = "loop" => Range(fetched) = visited_urls

\* C1 happens: the root page held a directory entry '.', whose URL is the
\* root's with the empty segment of 'http://' dropped by urljoin, and so a page
\* of its own; that page held an entry '.' again, which resolves to the URL
\* just requested, and its node was popped and dropped with no request.
C1_Witness ==
    /\ pc = "loop"
    /\ cur.url = UrlJoin(initial_dir_view_url, DOT)
    /\ cur.local = <<".", SLASH, ".">>
    /\ fetched = <<initial_dir_view_url, cur.url>>

\* C2: once the walk has begun (the output directory is there), it ends: the
\* queue becomes empty and the statistics are returned, whatever failed on the way.
C2_Completes == (pc = "loop") ~> (pc = "done" /\ queue = <<>>)

\* C2 happens: a run ended with an empty queue after a directory could not be
\* created and a file of the tree was left with an error.
C2_Witness ==
    /\ pc = "done"
    /\ queue = <<>>
    /\ mkdir_failed
    /\ file_errors # <<>>

\* The first run made every directory it tried to make and wrote every file it
\* tried to write.
C3_FirstRunWrote ==
    /\ ~prev.mkdir_failed
    /\ \A i \in 1..Len(prev.file_errors) : prev.file_errors[i][1] # "save error"

EntryTaken == pc = "entry" /\ (idx' = idx + 1 \/ pc' = "fetch")

\* The entry such a step takes up.
TakenEntry == listings'[cur.url].entries[idx]

\* Such a step takes up a File entry of the tree.
FileTaken ==
    /\ EntryTaken
    /\ StartsWith(TakenEntry.href, <<".", SLASH>>)
    /\ ~Filtered(TakenEntry.href)
    /\ TakenEntry.alt = "[TXT]"

\* The local destination of entry e exists with non-zero size.
LocalPresent(e) ==
    LET path == PathJoin(PathJoin(local_output_dir, cur.local), DisplayName(e.href))
    IN /\ Exists(fs, path)
       /\ IF NodeAt(fs, Resolve(fs, path).key) = "dir" THEN dir_size_positive
          ELSE NodeAt(fs, Resolve(fs, path).key) # ""

\* The step issues no file request and writes nothing.
NoFetchNoWrite ==
    /\ pc' = "entry"
    /\ attempts' = attempts
    /\ files' = files
    /\ file_download_url' = file_download_url
    /\ fs' = fs

\* C4 as stated: every File entry with no revision is taken up with no write
\* and no file request, and one ('latest revision error', display name) pair is
\* appended to the error list.
C4_Original ==
    [][(FileTaken /\ TakenEntry.rev = None) =>
          /\ NoFetchNoWrite
          /\ file_errors' = Append(file_errors, <<"latest revision error",
                                                  DisplayName(TakenEntry.href)>>)]_vars

\* C4: a File entry with no revision whose local destination is absent or empty
\* is taken up with no write and no file request, and exactly one
\* ('latest revision error', display name) pair is appended to the error list;
\* the counters of saved and skipped files stay.
C4_NoRevision ==
    [][(FileTaken /\ TakenEntry.rev = None /\ ~LocalPresent(TakenEntry)) =>
          /\ NoFetchNoWrite
          /\ file_errors' = Append(file_errors, <<"latest revision error",
                                                  DisplayName(TakenEntry.href)>>)
          /\ saved_files' = saved_files /\ skipped_files' = skipped_files]_vars

\* C4 happens: a File entry a with no revision was taken up while its local
\* file was absent or empty, and the error list ends with its pair.
C4_Witness ==
    /\ pc = "entry" /\ idx > 1
    /\ ent = listings[cur.url].entries[idx - 1]
    /\ ent.alt = "[TXT]" /\ ent.rev = None
    /\ ~LocalPresent(ent)
    /\ file_errors # <<>>
    /\ Last(file_errors) = <<"latest revision error", <<"a">>>>

\* C5: whenever an entry of a directory's page is taken up as a file or as a
\* subdirectory, the directory's local path holds a directory.
C5_DirBeforeChildren ==
    [][(EntryTaken /\ ~Filtered(TakenEntry.href)) =>
          IsDir(fs, PathJoin(local_output_dir, cur.local))]_vars

\* ------------------------------------------------------ the fetch strategies

\* A strategy returned no content: None or no bytes.
NoContent(a) == a.content \in {None, ""}

\* The strategies requested for the current entry so far: markup first,
\* checkout second and only after markup returned no content; while the loop
\* of the strategies runs, none returned content yet; when the file is to be
\* saved, the last one requested returned the content to save.
C6_Order ==
    /\ Len(attempts) <= 2
    /\ \A i \in 1..Len(attempts) :
          attempts[i].strategy = IF i = 1 THEN "markup" ELSE "checkout"
    /\ Len(attempts) = 2 => NoContent(attempts[1])
    /\ pc = "fetch" => \A i \in 1..Len(attempts) : NoContent(attempts[i])
    /\ pc = "save" =>
          /\ attempts # <<>>
          /\ ~NoContent(Last(attempts))
          /\ file_content = Last(attempts).content

\* C6: for a File entry that is fetched, the strategies are requested in the
\* order markup, checkout, each at most once; checkout is requested only after
\* markup returned no content; every request to the service is one of these;
\* and a download error is recorded only after both returned no content.
C6_MarkupThenCheckout ==
    [][/\ C6_Order'
       /\ files' # files =>
             /\ pc = "fetch"
             /\ attempts' = Append(attempts, Last(attempts'))
             /\ DOMAIN files' \ DOMAIN files =
                   {<<Last(attempts').strategy, Strip(UrlJoin(cur.repo, NodeName(ent.href))),
                      ent.rev>>}
       /\ (pc = "fetch" /\ pc' = "entry") =>
             /\ Len(attempts') = 2
             /\ NoContent(attempts'[1]) /\ NoContent(attempts'[2])
       /\ (Len(file_errors') = Len(file_errors) + 1
             /\ Last(file_errors')[1] = "download error") =>
             (pc = "fetch" /\ pc' = "entry")]_vars

\* C6 happens: markup returned no content, checkout was requested after it and
\* returned the content to save.
C6_Witness ==
    /\ pc = "save"
    /\ Len(attempts) = 2
    /\ attempts[1].strategy = "markup" /\ NoContent(attempts[1])
    /\ attempts[2].strategy = "checkout" /\ attempts[2].content = "checkout_bytes"

\* The local destination of the current entry.
Destination == PathJoin(PathJoin(local_output_dir, cur.local), DisplayName(ent.href))

\* Markup returned no content and checkout returned content for the current
\* entry, which is now to be saved.
CheckoutAfterMarkup ==
    /\ pc = "save"
    /\ Len(attempts) = 2
    /\ attempts[1].strategy = "markup" /\ NoContent(attempts[1])
    /\ attempts[2].strategy = "checkout" /\ attempts[2].content = "checkout_bytes"
    /\ file_download_url.view = "checkout"

\* The step writes the checkout bytes at the destination, and only there.
WroteCheckoutBytes ==
    /\ Resolve(fs, Destination).ok
    /\ fs' = [k \in DOMAIN fs \cup {Resolve(fs, Destination).key} |->
                 IF k = Resolve(fs, Destination).key THEN "checkout_bytes" ELSE fs[k]]

\* C7 as stated: when markup returned no content and checkout returned content,
\* the file is written with the checkout bytes, one more file is saved and no
\* error is appended.
C7_Original ==
    [][(CheckoutAfterMarkup /\ pc' # pc) =>
          /\ WroteCheckoutBytes
          /\ saved_files' = saved_files + 1
          /\ file_errors' = file_errors]_vars

\* C7: when markup returned no content and checkout returned content, either
\* the file is written with the checkout bytes, one more file is saved and no
\* error is appended; or the write raised OSError: one ('save error', checkout
\* URL) pair is appended, no file is counted as saved and the destination does
\* not hold the checkout bytes.
C7_CheckoutSaved ==
    [][(CheckoutAfterMarkup /\ pc' # pc) =>
          /\ pc' = "entry" /\ idx' = idx + 1
          /\ skipped_files' = skipped_files
          /\ \/ /\ WroteCheckoutBytes
                /\ saved_files' = saved_files + 1
                /\ file_errors' = file_errors
             \/ /\ file_errors' = Append(file_errors, <<"save error", file_download_url>>)
                /\ saved_files' = saved_files
                /\ \A k \in DOMAIN fs' : k \in DOMAIN fs => fs'[k] \in {fs[k], "", "part"}
                /\ \A k \in DOMAIN fs' : fs'[k] = "checkout_bytes" =>
                                             (k \in DOMAIN fs /\ fs[k] = "checkout_bytes")]_vars

\* C7 happens: the file was written with the checkout bytes after markup had
\* returned no content, and no error was recorded in the run.
C7_Witness ==
    /\ pc = "entry" /\ idx > 1
    /\ Len(attempts) = 2 /\ attempts[1].outcome \in {"error", "nopre"}
    /\ attempts[2].content = "checkout_bytes"
    /\ Exists(fs, Destination) /\ NodeAt(fs, Resolve(fs, Destination).key) = "checkout_bytes"
    /\ saved_files = 1
    /\ file_errors = <<>>

\* ------------------------------------------------------------------- errors

\* The request for a listing page met a transport error.
ListingError == pc = "fetch_page" /\ pc' = "loop" /\ listings'[cur.url].kind = "error"

\* The listing page has no <menu>.
MenuMissing == pc = "parse" /\ pc' = "loop"

\* A File entry that is not skipped has no revision.
RevisionMissing == FileTaken /\ TakenEntry.rev = None /\ ~LocalPresent(TakenEntry)

\* The last strategy returned no content.
FetchesFailed == pc = "fetch" /\ pc' = "entry"

\* A request for a file met a transport error.
FileTransportError ==
    pc = "fetch" /\ Len(attempts') = Len(attempts) + 1 /\ Last(attempts').outcome = "error"

\* The content fetched for a file was not saved.
SaveRaised == pc = "save" /\ pc' = "entry" /\ saved_files' = saved_files

\* One pair of the given kind and value is appended to the error list.
Recorded(kind, value) == file_errors' = Append(file_errors, <<kind, value>>)

\* C8 as stated: every error of the taxonomy appends to the error list.
C8_Original ==
    [][(ListingError \/ MenuMissing \/ RevisionMissing \/ FileTransportError
          \/ FetchesFailed \/ SaveRaised) =>
          Len(file_errors') = Len(file_errors) + 1]_vars

\* C8: an error about a file (no revision for a File entry that is not skipped,
\* no content from either strategy, OSError on saving) appends exactly one pair
\* to the error list and leaves the file unresolved: not counted as saved, and
\* not written, or after a save error at most emptied or partly written.  An
\* error about a listing (transport error, no <menu>) appends nothing and
\* leaves the local tree alone, as does a transport error of the first
\* strategy.  Nothing else appends to the error list.
C8_FileErrorsRecorded ==
    [][/\ RevisionMissing =>
             /\ Recorded("latest revision error", DisplayName(TakenEntry.href))
             /\ fs' = fs /\ saved_files' = saved_files
       /\ FetchesFailed =>
             /\ Recorded("download error", file_download_url')
             /\ file_download_url'.view = "checkout"
             /\ fs' = fs /\ saved_files' = saved_files
       /\ SaveRaised =>
             /\ Recorded("save error", file_download_url)
             /\ \A k \in DOMAIN fs' :
                   IF k \in DOMAIN fs THEN fs'[k] \in {fs[k], "", "part"}
                   ELSE fs'[k] \in {"", "part"}
       /\ (ListingError \/ MenuMissing \/ (FileTransportError /\ ~FetchesFailed)) =>
             (file_errors' = file_errors /\ fs' = fs)
       /\ (file_errors' # file_errors /\ file_errors' # <<>>) =>
             (RevisionMissing \/ FetchesFailed \/ SaveRaised)]_vars

\* C8 happens: the run recorded a save error for a file it left partly written.
C8_Witness ==
    /\ pc = "entry" /\ idx > 1
    /\ file_errors # <<>>
    /\ Last(file_errors) = <<"save error", file_download_url>>
    /\ Exists(fs, Destination) /\ NodeAt(fs, Resolve(fs, Destination).key) = "part"
    /\ saved_files = 0

\* When both strategies returned no content: one ('download error', URL last
\* requested) pair is appended, no file is counted as saved or skipped, nothing
\* is written, and the destination is still not there with a size.
C9_NotWritten ==
    FetchesFailed =>
        /\ Recorded("download error", file_download_url')
        /\ file_download_url'.view = "checkout"
        /\ saved_files' = saved_files /\ skipped_files' = skipped_files
        /\ fs' = fs
        /\ ~LocalPresent(ent)

\* A file the first run recorded a download error for is requested again by the
\* second run, which meets the same error from the unchanged service.
C9_FetchedAgain ==
    (run' = 2 /\ pc' = "done") =>
        \A i \in 1..Len(prev'.file_errors) :
            prev'.file_errors[i][1] = "download error" =>
                prev'.file_errors[i] \in Range(file_errors')

\* C9: when both strategies fail for a File entry, one ('download error', URL)
\* pair is appended, no counter of files moves, the file is not written, and a
\* later run fetches it again.
C9_DownloadError == [][C9_NotWritten /\ C9_FetchedAgain]_vars

\* C10: a File entry whose local destination exists with non-zero size when it
\* is taken up, with or without a revision: one more file is skipped and
\* nothing else happens for the entry: no request, no write, no file saved, no
\* error, nothing added to the queue.
C10_SkipOnly ==
    [][(FileTaken /\ LocalPresent(TakenEntry)) =>
          /\ skipped_files' = skipped_files + 1
          /\ NoFetchNoWrite
          /\ idx' = idx + 1
          /\ UNCHANGED <<saved_files, file_errors, queue, visited_urls, saved_dirs,
                         skipped_dirs, file_content, cur>>]_vars

\* C10 happens: a File entry with no revision was skipped because its local
\* file was there with content.
C10_Witness ==
    /\ pc = "entry" /\ idx > 1
    /\ ent = listings[cur.url].entries[idx - 1]
    /\ ent.alt = "[TXT]" /\ ent.rev = None
    /\ LocalPresent(ent)
    /\ skipped_files = 1
    /\ file_errors = <<>> /\ files = <<>>

\* ------------------------------------------------------------ the local tree

\* C11: within one run no local file path is written twice: the resolved paths
\* of the files the run has written are pairwise different, and each holds the
\* content that was written to it.
C11_WrittenOnce ==
    /\ \A i, j \in 1..Len(written) : written[i] = written[j] => i = j
    /\ \A i \in 1..Len(written) :
          written[i] \in DOMAIN fs /\ fs[written[i]] \in {"markup_text", "checkout_bytes"}
    /\ Len(written) = saved_files

\* C11 happens: a page listed the same file twice; the run wrote it once and
\* skipped its second entry.
C11_Witness ==
    /\ pc = "entry" /\ idx = 3
    /\ listings[cur.url].entries[1].alt = "[TXT]"
    /\ listings[cur.url].entries[2] = listings[cur.url].entries[1]
    /\ Len(written) = 1
    /\ skipped_files = 1

\* C12: every directory and every file of the local tree lies under the root
\* output directory: its resolved path begins with local_output_dir.
C12_UnderRoot ==
    \A k \in DOMAIN fs : k # <<>> /\ k[1] = local_output_dir

\* ------------------------------------------------------------- the requests

\* C13: every request of the run so far that got a successful response (a
\* listing, a markup view or a checkout, whatever the page held) was followed
\* by the delay, and every request that failed was not; one step of the run
\* issues at most one request and has its answer, and its delay, before the
\* next step.
C13_DelayAfterSuccess ==
    [][/\ Len(delays') = Len(fetched')
       /\ \A i \in 1..Len(fetched') :
             delays'[i] = (listings'[fetched'[i]].kind # "error")
       /\ \A i \in 1..Len(attempts') :
             attempts'[i].slept = (attempts'[i].outcome # "error")
       /\ Len(fetched') + Len(attempts') <= Len(fetched) + Len(attempts) + 1]_vars

\* C13 happens: a listing request succeeded with the delay, a later one failed
\* with no delay, and of the two requests for a file the first failed with no
\* delay and the second got a response and the delay.
C13_Witness ==
    /\ \E i, j \in 1..Len(delays) : i < j /\ delays[i] /\ ~delays[j]
    /\ Len(attempts) = 2
    /\ ~attempts[1].slept /\ attempts[1].outcome = "error"
    /\ attempts[2].slept

\* --------------------------------------------------- the raw content marker

IF_ == <<"i", "f", "_">>

\* The string sub is in s from position i on.
OccursAt(sub, s, i) == i >= 1 /\ i + Len(sub) - 1 <= Len(s) /\ SubSeq(s, i, i + Len(sub) - 1) = sub
Occurs(sub, s) == \E i \in 1..Len(s) : OccursAt(sub, s, i)

\* What the rewrite is to return for the string of the parts p: for an http
\* or https URL of web.archive.org with a timestamp of fourteen digits, no
\* marker and a rest that begins with a slash, the string with the marker
\* put in after the timestamp; for any other string, the string itself.
C14_Expected(p) ==
    IF /\ p.scheme \in {<<"h", "t", "t", "p">>, <<"h", "t", "t", "p", "s">>}
       /\ p.host = ArchiveHost
       /\ p.stamp = Stamp
       /\ p.marker = <<>>
       /\ p.rest # <<>> /\ p.rest[1] = SLASH
    THEN UrlOf([p EXCEPT !.marker = IF_])
    ELSE UrlOf(p)

\* The position after the timestamp in a URL built on cgi_base_url.
AfterStamp ==
    Len(UrlOf([scheme |-> <<"h", "t", "t", "p", "s">>, host |-> ArchiveHost,
               stamp |-> Stamp, marker |-> <<>>, rest |-> <<>>])) + 1

\* The listing URLs of the run: requested, being requested, and waiting.
ListingUrls ==
    Range(fetched) \cup {queue[i].url : i \in 1..Len(queue)}
    \cup (IF cur = NoNode THEN {} ELSE {cur.url})

\* What is asked of the strings at hand: of the results of the rewrite applied
\* on its own, and of the URLs of a run.
C14_Strings ==
    /\ call.f = "get_wayback_raw_content_url" =>
          /\ Len(call.out) >= 1 => call.out[1] = C14_Expected(call.parts)
          /\ Len(call.out) = 2 => call.out[2] = call.out[1]
    /\ \A u \in ListingUrls : ~Occurs(IF_, u)
    /\ file_download_url.view = "markup" => ~Occurs(IF_, file_download_url.url)
    /\ file_download_url.view = "checkout" =>
          \A i \in 1..Len(file_download_url.url) :
              OccursAt(IF_, file_download_url.url, i) <=> i = AfterStamp

\* C14: get_wayback_raw_content_url returns, for an http or https URL of
\* web.archive.org with a fourteen-digit timestamp and no marker, the same URL
\* with if_ put in right after the timestamp, and any other string (marker
\* already there, other scheme or host, timestamp of another length or not of
\* digits, no slash after it) unchanged; applied to its own result it returns
\* that result. In a run the URL of a checkout request carries the marker,
\* once and right after the timestamp, and without it is the URL the checkout
\* strategy builds for the entry; no markup URL and no listing URL carries
\* the marker.
C14_RewriteOnceCheckoutOnly ==
    [][/\ C14_Strings'
       /\ (file_download_url' # file_download_url
            /\ file_download_url'.view = "checkout") =>
             SubSeq(file_download_url'.url, 1, AfterStamp - 1)
                \o SubSeq(file_download_url'.url, AfterStamp + 3,
                          Len(file_download_url'.url))
             = RStrip(cgi_base_url) \o <<SLASH>> \o Strip(CHECKOUT_PREFIX) \o <<SLASH>>
               \o QuotePath(Strip(UrlJoin(cur.repo, NodeName(ent.href))))
               \o REV_QUERY \o RevText(ent.rev)]_vars

\* C14 happens: the rewrite was applied twice to an archive URL with no marker
\* and put the marker in the first time.
C14_Witness ==
    /\ call.f = "get_wayback_raw_content_url"
    /\ Len(call.out) = 2
    /\ call.parts.marker = <<>>
    /\ call.out[1] # call.arg

\* In a run, a checkout URL was requested after a markup URL.
C14_CheckoutRequested ==
    /\ file_download_url.view = "checkout"
    /\ Len(attempts) = 2

\* ------------------------------------------------------------ sanitization

\* The characters the names are to be free of: < > : " / \ | ? * and the
\* control characters.
C15_Illegal == {"<", ">", ":", "\"", "/", "\\", "|", "?", "*"} \cup {"\t", "\n"}

\* C15: the result of sanitize_filename_for_illegal_chars is as long as the
\* name, has an underscore wherever the name has an illegal character, has
\* the name's character everywhere else, and has no illegal character.
C15_Sanitized ==
    (call.f = "sanitize_filename_for_illegal_chars" /\ call.out # <<>>) =>
        /\ Len(call.out[1]) = Len(call.arg)
        /\ \A i \in 1..Len(call.arg) :
              call.out[1][i] = IF call.arg[i] \in C15_Illegal THEN "_" ELSE call.arg[i]
        /\ \A i \in 1..Len(call.out[1]) : call.out[1][i] \notin C15_Illegal

\* C15 happens: a name with a letter, a backslash and a line break was
\* sanitized.
C15_Witness ==
    /\ call.f = "sanitize_filename_for_illegal_chars"
    /\ call.arg = <<"a", "\\", "\n">>
    /\ call.out = << <<"a", "_", "_">> >>

\* -------------------------------------------------------- the ignored names

\* The names to pass over: the parent-directory marker, the "don't hide"
\* toggle, the "back" link, attic, and attic with a slash.
C16_Ignore ==
    { <<"p","a","r","e","n","t"," ","d","i","r","e","c","t","o","r","y">>,
      <<"[","d","o","n","'","t"," ","h","i","d","e","]">>,
      <<"[","b","a","c","k","]">>,
      <<"a","t","t","i","c">>,
      <<"a","t","t","i","c","/">> }

\* The derived display name of e is empty or, in lower case, one of them.
C16_ToFilter(e) ==
    \/ DisplayName(e.href) = <<>>
    \/ Lower(DisplayName(e.href)) \in C16_Ignore

\* A step takes up such an entry and does nothing with it: nothing is added
\* to the queue, nothing is counted, no error is recorded, no file is
\* requested and nothing is written.
C16_PassedOver ==
    (EntryTaken /\ C16_ToFilter(TakenEntry)) =>
        /\ queue' = queue
        /\ idx' = idx + 1
        /\ NoFetchNoWrite
        /\ <<saved_dirs, saved_files, skipped_dirs, skipped_files>>'
           = <<saved_dirs, saved_files, skipped_dirs, skipped_files>>
        /\ file_errors' = file_errors
        /\ written' = written

\* A listing URL of an Attic directory: its last directory is named attic,
\* in any case of the letters.
AtticUrl(u) == EndsWith(Lower(u), <<SLASH, "a", "t", "t", "i", "c", SLASH>>)

Enqueued == pc = "entry" /\ Len(queue') = Len(queue) + 1

\* C17: the node a step appends to the queue has the repository path of the
\* page being processed followed by at least one non-empty segment, ending
\* with a slash, and a listing URL other than that of the page.
C17_Extends ==
    [][Enqueued =>
          /\ Len(Last(queue').repo) > Len(cur.repo)
          /\ StartsWith(Last(queue').repo, cur.repo)
          /\ Last(Last(queue').repo) = SLASH
          /\ Strip(SubSeq(Last(queue').repo, Len(cur.repo) + 1,
                          Len(Last(queue').repo))) # <<>>
          /\ Last(queue').url # cur.url]_vars

\* The node appended has the path the claim describes when the href of its
\* entry is a plain name: the path of the page, the name, and a slash.
C17_PlainName ==
    [][(Enqueued /\ TakenEntry.href = <<".", SLASH, "a", SLASH>>) =>
          /\ Last(queue').repo = cur.repo \o <<"a", SLASH>>
          /\ Last(queue').url # cur.url]_vars

InFile == pc \in {"fetch", "save"}

\* C19: between File entries, files_saved + files_skipped + the number of
\* recorded errors is the number of File entries processed so far in the run
\* (while an entry is being fetched or saved, it is the one entry short);
\* saved_dirs + skipped_dirs is at most the number of visited URLs; and no
\* counter decreases and no error is taken back during a run.
C19_Accounting ==
    [][/\ saved_files' + skipped_files' + Len(file_errors')
          = processed' - (IF InFile' THEN 1 ELSE 0)
       /\ saved_dirs' + skipped_dirs' <= Cardinality(visited_urls')
       /\ run' = run =>
             /\ saved_files' >= saved_files /\ skipped_files' >= skipped_files
             /\ saved_dirs' >= saved_dirs /\ skipped_dirs' >= skipped_dirs
             /\ Len(file_errors') >= Len(file_errors)
             /\ SubSeq(file_errors', 1, Len(file_errors)) = file_errors
             /\ (saved_files' - saved_files) + (skipped_files' - skipped_files)
                + (Len(file_errors') - Len(file_errors)) <= 1]_vars

\* C19 happens: a run ended with two File entries processed, one saved and
\* one left with an error, and the root directory counted as already there.
C19_Witness ==
    /\ pc = "done"
    /\ processed = 2
    /\ saved_files = 1 /\ Len(file_errors) = 1
    /\ skipped_dirs = 1 /\ Cardinality(visited_urls) = 1

\* ------------------------------------------------------ zero-length content

\* A strategy was just requested and returned empty bytes.
ReturnedEmpty ==
    pc = "fetch" /\ Len(attempts') = Len(attempts) + 1 /\ Last(attempts').content = ""

\* The step leaves a zero-length file where there was none.
NewEmptyFile ==
    \E k \in DOMAIN fs' : fs'[k] = "" /\ (k \notin DOMAIN fs \/ fs[k] # "")

\* Every file counted as saved is on disk with content.
SavedNotEmpty ==
    /\ Len(written) = saved_files
    /\ \A i \in 1..Len(written) :
          written[i] \in DOMAIN fs /\ fs[written[i]] \notin {"", "dir"}

\* Both strategies returned empty content for the entry: the step that ends
\* the loop records one download error and writes nothing.
BothEmpty ==
    (FetchesFailed /\ Len(attempts') = 2
       /\ attempts'[1].outcome = "zero" /\ attempts'[2].outcome = "zero") =>
        /\ Recorded("download error", file_download_url')
        /\ fs' = fs
        /\ saved_files' = saved_files /\ skipped_files' = skipped_files

====
